---- MODULE Spec2Model ----
(***************************************************************************)
(* A model of the RSS ingestion pipeline: scripts/rss_fetcher.py (feed     *)
(* parser, item store, snapshot) and scripts/export_jsonl.py (exporter,    *)
(* summary cleaner).                                                       *)
(*                                                                         *)
(* Text is a sequence of one-character strings.  Python's None is the      *)
(* value None below, and a dict key that was never set is Unset; neither   *)
(* is a text, because their single element is not a character.             *)
(***************************************************************************)
EXTENDS Integers, Sequences, FiniteSets, TLC

None == <<"None">>
Unset == <<"Unset">>

\* ------------------------------------------------------------------ bounds
MaxChildren == 2   \* children of one item/entry element in a parsed document
MaxEntries == 2    \* item/entry elements under the container of a document
MaxBatch == 2      \* entries in one fetched feed
MaxRows == 2       \* rows of the items table
MaxClock == 1      \* last clock tick
MaxLimit == 2      \* largest --limit given to the exporter
MaxFrags == 3      \* fragments concatenated into one cleaner input
MaxUrls == 2       \* configured feed URLs
MaxCycles == 2     \* passes over the URLs that run_poll starts
MaxInterval == 2   \* largest --interval, in seconds

\* ------------------------------------------------------- generic helpers
Min(a, b) == IF a < b THEN a ELSE b

Range(s) == {s[i] : i \in 1..Len(s)}

\* all sequences over S of length lo..hi
SeqsOf(S, lo, hi) == UNION {[1..n -> S] : n \in lo..hi}

RECURSIVE Concat(_)
Concat(ss) == IF ss = <<>> THEN <<>> ELSE Head(ss) \o Concat(Tail(ss))

\* Python truthiness of an optional text: None, a missing key and "" are falsy
Truthy(v) == v # None /\ v # Unset /\ v # <<>>

\* ------------------------------------------------------------ whitespace
\* the characters of the model's alphabet that str.strip() and \s treat as
\* whitespace: space, newline and U+00A0 (written "~")
IsSpace(c) == c \in {" ", "\n", "~"}

RECURSIVE LStrip(_)
LStrip(s) == IF s # <<>> /\ IsSpace(Head(s)) THEN LStrip(Tail(s)) ELSE s

RECURSIVE RStrip(_)
RStrip(s) ==
  IF s # <<>> /\ IsSpace(s[Len(s)]) THEN RStrip(SubSeq(s, 1, Len(s) - 1)) ELSE s

\* str.strip()
Strip(s) == RStrip(LStrip(s))

\* ============================================================ feed parser
\* An element is [tag, text, href, children]: tag is the ElementTree tag
\* ("{ns}local" or "local") as a sequence of tokens, text is the element's
\* .text (None or a text), href its href attribute (None when absent).
Elem(tag, text, href, children) ==
  [tag |-> tag, text |-> text, href |-> href, children |-> children]

_localname(tag) ==
  IF tag = None THEN None
  ELSE IF tag # <<>> /\ Head(tag) = "{"
       THEN LET k == CHOOSE i \in 1..Len(tag) :
                       tag[i] = "}" /\ \A j \in 1..(i - 1) : tag[j] # "}"
            IN SubSeq(tag, k + 1, Len(tag))
       ELSE tag

\* root.findall('.//'): every descendant of the element, in document order,
\* the element itself not included
RECURSIVE Descendants(_)
RECURSIVE DescendantsOfAll(_)
Descendants(e) == DescendantsOfAll(e.children)
DescendantsOfAll(es) ==
  IF es = <<>> THEN <<>>
  ELSE <<Head(es)>> \o Descendants(Head(es)) \o DescendantsOfAll(Tail(es))

Keys == {"guid", "link", "title", "summary", "published"}

EmptyData == [k \in Keys |-> Unset]

\* dict.setdefault
setdefault(data, k, v) == IF data[k] = Unset THEN [data EXCEPT ![k] = v] ELSE data

\* dict.get: a key that was never set reads as None
Get(data, k) == IF data[k] = Unset THEN None ELSE data[k]

\* the text of a child as the parser reads it: stripped, None when blank
ChildText(child) ==
  IF child.text # None /\ Strip(child.text) # <<>> THEN Strip(child.text) ELSE None

\* one iteration of "for child in item"
ParseChild(data, child) ==
  LET name == _localname(child.tag)
      text == ChildText(child)
  IN IF name = <<"guid">> THEN [data EXCEPT !["guid"] = text]
     ELSE IF name = <<"link">>
       THEN setdefault(data, "link", IF Truthy(child.href) THEN child.href ELSE text)
     ELSE IF name = <<"title">> THEN [data EXCEPT !["title"] = text]
     ELSE IF name \in {<<"description">>, <<"summary">>, <<"content">>}
       THEN setdefault(data, "summary", text)
     ELSE IF name \in {<<"pubDate">>, <<"published">>, <<"updated">>}
       THEN setdefault(data, "published", text)
     ELSE data

RECURSIVE ParseChildren(_, _)
ParseChildren(data, cs) ==
  IF cs = <<>> THEN data ELSE ParseChildren(ParseChild(data, Head(cs)), Tail(cs))

NoTitle == <<"(", "n", "o", " ", "t", "i", "t", "l", "e", ")">>

\* a fallback that looks only for a missing key, as setdefault would
GuidFallbackIfMissing(data) ==
  IF data["guid"] = Unset THEN [data EXCEPT !["guid"] = Get(data, "link")] ELSE data

\* "if no guid, use link" and "fallback title/summary"
GuidFallback(data) ==
  IF ~Truthy(data["guid"]) THEN [data EXCEPT !["guid"] = Get(data, "link")] ELSE data

TitleFallback(data) ==
  setdefault(data, "title",
             IF Truthy(data["summary"]) THEN data["summary"] ELSE NoTitle)

ParseItem(item) == TitleFallback(GuidFallback(ParseChildren(EmptyData, item.children)))

IsEntry(e) == _localname(e.tag) \in {<<"item">>, <<"entry">>}

RECURSIVE ParseElems(_)
ParseElems(es) ==
  IF es = <<>> THEN <<>>
  ELSE (IF IsEntry(Head(es)) THEN <<ParseItem(Head(es))>> ELSE <<>>)
       \o ParseElems(Tail(es))

parse_rss(root) == ParseElems(Descendants(root))

\* ======================================================== summary cleaner
Upper == <<"A", "B", "C", "D", "E", "F", "G", "H", "I", "J", "K", "L", "M",
           "N", "O", "P", "Q", "R", "S", "T", "U", "V", "W", "X", "Y", "Z">>
LowerOf == <<"a", "b", "c", "d", "e", "f", "g", "h", "i", "j", "k", "l", "m",
             "n", "o", "p", "q", "r", "s", "t", "u", "v", "w", "x", "y", "z">>

\* re.IGNORECASE compares characters by their lower case
Lower(c) ==
  IF \E i \in 1..26 : Upper[i] = c THEN LowerOf[CHOOSE i \in 1..26 : Upper[i] = c] ELSE c

\* \w: letters, digits and the underscore
IsWord(c) ==
  \/ \E i \in 1..26 : Upper[i] = c \/ LowerOf[i] = c
  \/ c \in {"0", "1", "2", "3", "4", "5", "6", "7", "8", "9", "_"}

\* the literal lit (lower case) matches s at position i, whatever the case
LitAt(s, i, lit) ==
  /\ i + Len(lit) - 1 <= Len(s)
  /\ \A j \in 1..Len(lit) : Lower(s[i + j - 1]) = lit[j]

\* the characters of an entity name in html.unescape: [^\t\n\f <&#;]{1,32}
MaxRefLen == 32
IsRefChar(c) == c \notin {"\t", "\n", " ", "<", "&", "#", ";"}

\* the character classes of the cleaner's expressions: \s, \w, [^>] and the
\* characters of an entity name
InClass(cls, c) ==
  CASE cls = "space" -> IsSpace(c)
    [] cls = "word" -> IsWord(c)
    [] cls = "notgt" -> c # ">"
    [] cls = "ref" -> IsRefChar(c)

\* how many characters from position i on are in the class: a greedy X*
RunLen(s, i, cls) ==
  LET runs == {n \in 0..(IF i <= Len(s) THEN Len(s) - i + 1 ELSE 0) :
                 \A j \in 0..(n - 1) : InClass(cls, s[i + j])}
  IN CHOOSE n \in runs : \A m \in runs : m <= n

AnyTail == 200   \* [\s\S]{0,200}

\* A pattern is [lit, alts, tail]: the literal lit, then one of the literals
\* alts (tried in order; <<>> when the pattern has no group), then the tail
\* "none", "any200" ([\s\S]{0,200}) or "spaceword" (\s*\w+).
Pat(lit, alts, tail) == [lit |-> lit, alts |-> alts, tail |-> tail]

Patterns == <<
  Pat(<<"w", "e", " ", "u", "s", "e", " ", "c", "o", "o", "k", "i", "e", "s", " ", "t", "o", " ", "e", "n", "s", "u", "r", "e">>, <<>>, "any200"),
  Pat(<<"b", "y", " ", "c", "o", "n", "t", "i", "n", "u", "e", "d", " ", "u", "s", "e", ",", " ", "y", "o", "u", " ">>, <<<<"a", "g", "r", "e", "e">>, <<"a", "c", "c", "e", "p", "t">>>>, "any200"),
  Pat(<<"c", "l", "i", "c", "k", " ">>, <<<<"f", "i", "n", "d", " ", "o", "u", "t", " ", "m", "o", "r", "e">>, <<"h", "e", "r", "e", " ", "f", "o", "r", " ", "m", "o", "r", "e">>>>, "none"),
  Pat(<<"i", " ", "a", "g", "r", "e", "e">>, <<>>, "none"),
  Pat(<<"f", "i", "n", "d", " ", "o", "u", "t", " ", "m", "o", "r", "e">>, <<>>, "none"),
  Pat(<<"a", "d", "v", "e", "r", "t", "i", "s", "e", "m", "e", "n", "t">>, <<>>, "none"),
  Pat(<<"f", "i", "l", "t", "e", "r", "e", "d", " ", "b", "y", ":">>, <<>>, "spaceword"),
  Pat(<<"r", "e", "a", "d", " ", "m", "o", "r", "e">>, <<>>, "none"),
  Pat(<<"c", "o", "n", "t", "i", "n", "u", "e", " ", "r", "e", "a", "d", "i", "n", "g">>, <<>>, "none"),
  Pat(<<"s", "u", "b", "s", "c", "r", "i", "b", "e">>, <<>>, "none") >>

\* the length of the match of pattern p at position i of s, 0 when it does
\* not match there (no pattern matches the empty text)
MatchLen(s, i, p) ==
  IF ~LitAt(s, i, p.lit) THEN 0
  ELSE LET a == i + Len(p.lit)
           ok == {k \in 1..Len(p.alts) : LitAt(s, a, p.alts[k])}
           alt == IF p.alts = <<>> THEN 0
                  ELSE IF ok = {} THEN -1
                  ELSE Len(p.alts[CHOOSE k \in ok : \A m \in ok : k <= m])
           b == a + alt
       IN IF alt = -1 THEN 0
          ELSE IF p.tail = "any200" THEN (b - i) + Min(AnyTail, Len(s) - b + 1)
          ELSE IF p.tail = "spaceword"
            THEN LET sp == RunLen(s, b, "space")
                     w == RunLen(s, b + sp, "word")
                 IN IF w = 0 THEN 0 ELSE (b - i) + sp + w
          ELSE b - i

\* re.sub(p, " ", s) from position i on: leftmost matches, not overlapping
RECURSIVE SubPatFrom(_, _, _)
SubPatFrom(s, i, p) ==
  IF i > Len(s) THEN <<>>
  ELSE LET n == MatchLen(s, i, p)
       IN IF n > 0 THEN <<" ">> \o SubPatFrom(s, i + n, p)
          ELSE <<s[i]>> \o SubPatFrom(s, i + 1, p)

\* "for p in patterns: s = re.sub(p, " ", s, flags=re.IGNORECASE)"
RECURSIVE SubPatterns(_, _)
SubPatterns(s, ps) ==
  IF ps = <<>> THEN s ELSE SubPatterns(SubPatFrom(s, 1, Head(ps)), Tail(ps))

\* the length of the match of <[^>]+> at position i, 0 when there is none
TagLen(s, i) ==
  IF s[i] # "<" THEN 0
  ELSE LET inside == RunLen(s, i + 1, "notgt")
       IN IF inside >= 1 /\ i + inside + 1 <= Len(s) THEN inside + 2 ELSE 0

\* re.sub(r"<[^>]+>", " ", s)
RECURSIVE StripTagsFrom(_, _)
StripTagsFrom(s, i) ==
  IF i > Len(s) THEN <<>>
  ELSE LET n == TagLen(s, i)
       IN IF n > 0 THEN <<" ">> \o StripTagsFrom(s, i + n)
          ELSE <<s[i]>> \o StripTagsFrom(s, i + 1)

\* The named character references the model's alphabet can spell, each with
\* and without its semicolon; U+00A0 is written "~".
EntityNames == <<<<"a", "m", "p", ";">>, <<"a", "m", "p">>, <<"l", "t", ";">>, <<"l", "t">>, <<"g", "t", ";">>, <<"g", "t">>, <<"n", "b", "s", "p", ";">>, <<"n", "b", "s", "p">>>>
EntityChars == <<"&", "&", "<", "<", ">", ">", "~", "~">>

IsEntity(name) == \E k \in 1..Len(EntityNames) : EntityNames[k] = name
EntityChar(name) == EntityChars[CHOOSE k \in 1..Len(EntityNames) : EntityNames[k] = name]

\* html.unescape's replacement of the reference whose name (with its
\* semicolon, if any) is ref: the whole name, else its longest known prefix of
\* two characters or more, else the text as it is
ReplaceCharref(ref) ==
  IF IsEntity(ref) THEN <<EntityChar(ref)>>
  ELSE LET known == {x \in 2..(Len(ref) - 1) : IsEntity(SubSeq(ref, 1, x))}
       IN IF known = {} THEN <<"&">> \o ref
          ELSE LET x == CHOOSE y \in known : \A z \in known : z <= y
               IN <<EntityChar(SubSeq(ref, 1, x))>> \o SubSeq(ref, x + 1, Len(ref))

\* html.unescape(s) from position i on ("#" is not in the model's alphabet, so
\* there are no numeric references)
RECURSIVE UnescapeFrom(_, _)
UnescapeFrom(s, i) ==
  IF i > Len(s) THEN <<>>
  ELSE IF s[i] # "&" THEN <<s[i]>> \o UnescapeFrom(s, i + 1)
  ELSE LET run == Min(MaxRefLen, RunLen(s, i + 1, "ref"))
           semi == IF i + run + 1 <= Len(s) /\ s[i + run + 1] = ";" THEN 1 ELSE 0
       IN IF run = 0 THEN <<"&">> \o UnescapeFrom(s, i + 1)
          ELSE ReplaceCharref(SubSeq(s, i + 1, i + run + semi))
               \o UnescapeFrom(s, i + run + semi + 1)

\* re.sub(r"\s+", " ", s)
RECURSIVE CollapseFrom(_, _)
CollapseFrom(s, i) ==
  IF i > Len(s) THEN <<>>
  ELSE LET n == RunLen(s, i, "space")
       IN IF n > 0 THEN <<" ">> \o CollapseFrom(s, i + n)
          ELSE <<s[i]>> \o CollapseFrom(s, i + 1)

\* the steps the two cleaners share: phrases, tags, entities, whitespace
CleanSteps(s) ==
  LET c == Strip(CollapseFrom(UnescapeFrom(StripTagsFrom(SubPatterns(s, Patterns), 1), 1), 1))
  IN IF c # <<>> THEN c ELSE None

\* export_jsonl.py: "if not text: return text"
clean_summary(text) == IF ~Truthy(text) THEN text ELSE CleanSteps(text)

\* rss_fetcher.py: "if not s: return None"
clean_summary_for_snapshot(s) == IF ~Truthy(s) THEN None ELSE CleanSteps(s)

\* the texts the cleaners are run on: None, "" and the concatenations of up to
\* MaxFrags of these fragments
Fragments ==
  { <<"x">>,
    <<" ">>,
    <<"R", "e", "a", "d">>,
    <<" ", "m", "o", "r", "e">>,
    <<"<", "b", ">">>,
    <<"&", "a", "m", "p", ";">>,
    <<"l", "t", ";">>,
    <<"&", "n", "b", "s", "p", ";">>,
    <<"S", "u", "b", "s", "c", "r", "i", "b", "e">>,
    <<"w", "e", " ", "u", "s", "e", " ", "c", "o", "o", "k", "i", "e", "s", " ", "t", "o", " ", "e", "n", "s", "u", "r", "e">>,
    <<"<">> }

CleanInputs ==
  {None, <<>>} \cup {Concat(fs) : fs \in SeqsOf(Fragments, 1, MaxFrags)}

\* ============================================================= item store
\* The clock counts ticks of half a second; datetime.utcnow() never goes back.
TicksPerSec == 2    \* clock ticks in one second
MicrosPerSec == 1000000

Digit(n) == <<"0", "1", "2", "3", "4", "5", "6", "7", "8", "9">>[n + 1]

\* n as exactly w decimal digits (zero padded)
RECURSIVE Digits(_, _)
Digits(n, w) == IF w = 0 THEN <<>> ELSE Digits(n \div 10, w - 1) \o <<Digit(n % 10)>>

\* datetime.isoformat(): the seconds, then ".ffffff" only when the microsecond
\* is not zero.  The date, hour and minute ("2025-10-25T00:00:") are the same
\* for every tick of the model and are left out of the text.
isoformat(t) ==
  LET sec == t \div TicksPerSec
      usec == (t % TicksPerSec) * (MicrosPerSec \div TicksPerSec)
  IN Digits(sec, 2) \o (IF usec = 0 THEN <<>> ELSE <<".">> \o Digits(usec, 6))

\* datetime.utcnow().isoformat() + "Z"
FetchedAt(t) == isoformat(t) \o <<"Z">>

Row(it, t) ==
  [guid |-> Get(it, "guid"), title |-> Get(it, "title"), link |-> Get(it, "link"),
   published |-> Get(it, "published"), summary |-> Get(it, "summary"),
   fetched_at |-> FetchedAt(t)]

\* a guid column without its UNIQUE constraint
CollidesNever(table, guid) == FALSE

\* guid TEXT UNIQUE: a second row with the same non-NULL guid raises
\* IntegrityError; NULLs never collide
Collides(table, guid) == guid # None /\ \E i \in 1..Len(table) : table[i].guid = guid

\* a loop that counts the attempts, not the inserts
RECURSIVE InsertAllCountingAttempts(_, _, _, _)
InsertAllCountingAttempts(table, inserted, its, ts) ==
  IF its = <<>> THEN [table |-> table, inserted |-> inserted]
  ELSE IF Collides(table, Get(Head(its), "guid"))
       THEN InsertAllCountingAttempts(table, inserted + 1, Tail(its), Tail(ts))
       ELSE InsertAllCountingAttempts(Append(table, Row(Head(its), Head(ts))),
                                      inserted + 1, Tail(its), Tail(ts))

\* a loop of INSERT OR REPLACE: a colliding entry overwrites the stored row
RECURSIVE InsertAllReplacing(_, _, _, _)
InsertAllReplacing(table, inserted, its, ts) ==
  IF its = <<>> THEN [table |-> table, inserted |-> inserted]
  ELSE IF Collides(table, Get(Head(its), "guid"))
       THEN LET j == CHOOSE i \in 1..Len(table) : table[i].guid = Get(Head(its), "guid")
            IN InsertAllReplacing([table EXCEPT ![j] = Row(Head(its), Head(ts))],
                                  inserted, Tail(its), Tail(ts))
       ELSE InsertAllReplacing(Append(table, Row(Head(its), Head(ts))),
                               inserted + 1, Tail(its), Tail(ts))

\* a loop that looks for collisions only among the rows stored before the call
InsertAllAgainstStart(table, inserted, its, ts) ==
  LET fresh == SelectSeq([i \in 1..Len(its) |-> i],
                         LAMBDA i : ~Collides(table, Get(its[i], "guid")))
  IN [table |-> table \o [k \in 1..Len(fresh) |-> Row(its[fresh[k]], ts[fresh[k]])],
      inserted |-> inserted + Len(fresh)]

\* the loop of save_items over its[1..n], ts[i] being the clock at attempt i
RECURSIVE InsertAll(_, _, _, _)
InsertAll(table, inserted, its, ts) ==
  IF its = <<>> THEN [table |-> table, inserted |-> inserted]
  ELSE IF Collides(table, Get(Head(its), "guid"))
       THEN InsertAll(table, inserted, Tail(its), Tail(ts))
       ELSE InsertAll(Append(table, Row(Head(its), Head(ts))), inserted + 1,
                      Tail(its), Tail(ts))

\* clock readings of n successive attempts after an earlier reading t: the
\* clock stands still or moves on one tick between two readings
Readings(t, n) ==
  {ts \in [1..n -> t..MaxClock] :
     \A i \in 1..n : ts[i] - (IF i = 1 THEN t ELSE ts[i - 1]) \in {0, 1}}

\* ================================================================ exporter
\* the byte of a character of a fetched_at text
Code(c) ==
  IF c = "." THEN 46
  ELSE IF c = "Z" THEN 90
  ELSE 48 + (CHOOSE d \in 0..9 : Digit(d) = c)

\* a <= b as SQLite compares two TEXT values: byte by byte, a prefix first
RECURSIVE TextLeq(_, _)
TextLeq(a, b) ==
  IF a = <<>> THEN TRUE
  ELSE IF b = <<>> THEN FALSE
  ELSE IF Head(a) # Head(b) THEN Code(Head(a)) < Code(Head(b))
  ELSE TextLeq(Tail(a), Tail(b))

\* --limit: not given, or the integer k
NoLimit == [given |-> FALSE, k |-> 0]
Limit(k) == [given |-> TRUE, k |-> k]

\* "if since:" adds WHERE fetched_at >= ?
Selected(table, since) ==
  {i \in 1..Len(table) : Truthy(since) => TextLeq(since, table[i].fetched_at)}

\* ORDER BY fetched_at ASC: the selected rows in any order that is ascending
\* in fetched_at (SQL leaves the order of equal keys open)
Orderings(table, sel) ==
  {o \in [1..Cardinality(sel) -> sel] :
     /\ \A i, j \in 1..Cardinality(sel) : i # j => o[i] # o[j]
     /\ \A i \in 1..(Cardinality(sel) - 1) :
          TextLeq(table[o[i]].fetched_at, table[o[i + 1]].fetched_at)}

\* "if limit:" adds LIMIT ?, and SQLite reads a negative LIMIT as no limit
ApplyLimit(o, limit) ==
  IF limit.given /\ limit.k # 0 /\ limit.k > 0 THEN SubSeq(o, 1, Min(limit.k, Len(o))) ELSE o

\* one line of the output file
Record(row, cleaned) == [row EXCEPT !.summary = cleaned]

\* --------------------------------------------------------- fetched feeds
Ch(c) == <<c>>
Leaf(name, text) == Elem(<<name>>, text, None, <<>>)
Item(children) == Elem(<<"item">>, None, None, children)
AtomLink(href) == Elem(<<"{", "atom", "}", "link">>, None, href, <<>>)

\* the entries the poller's feeds are made of: a guid with a title; a blank
\* guid with that guid as link, under another title; an Atom link and nothing
\* else; a title and nothing else
FeedEntries ==
  { Item(<<Leaf("guid", Ch("A")), Leaf("title", Ch("T"))>>),
    Item(<<Leaf("guid", <<" ">>), Leaf("link", Ch("A")), Leaf("title", Ch("U"))>>),
    Item(<<AtomLink(Ch("B")), Leaf("description", <<"&", "l", "t", ";">>)>>),
    Item(<<Leaf("title", Ch("T"))>>) }

Feed(entries) ==
  Elem(<<"rss">>, None, None, <<Elem(<<"channel">>, <<"\n">>, None, entries)>>)

Feeds == {Feed(es) : es \in SeqsOf(FeedEntries, 0, MaxBatch)}

\* ------------------------------------------------------ parsed documents
\* the children an item/entry of a document may have
FieldChildren ==
  {Leaf("guid", t) : t \in {None, <<" ">>, Ch("A")}}
  \cup {Leaf("link", t) : t \in {<<" ">>, <<" ", "L", " ">>}}
  \cup {AtomLink(Ch("H"))}
  \cup {Leaf("title", t) : t \in {None, <<" ">>, Ch("T"), Ch("U")}}
  \cup {Leaf("description", t) : t \in {<<" ">>, Ch("S")}}
  \cup {Leaf("pubDate", Ch("P")), Leaf("category", Ch("c"))}

ItemElems ==
  {Elem(<<"item">>, <<"\n">>, None, cs) : cs \in SeqsOf(FieldChildren, 0, MaxChildren)}

AtomEntries ==
  {Elem(<<"{", "atom", "}", "entry">>, None, None, cs) : cs \in SeqsOf(FieldChildren, 0, 1)}

\* RSS documents, Atom documents, a document that is one Atom entry, and an
\* item inside an item
Docs ==
  {Feed(es) : es \in SeqsOf(ItemElems, 0, MaxEntries)}
  \cup {Elem(<<"{", "atom", "}", "feed">>, None, None, es) : es \in SeqsOf(AtomEntries, 0, MaxEntries)}
  \cup AtomEntries
  \cup {Feed(<<Item(<<c, e>>)>>) : c \in FieldChildren, e \in AtomEntries}

\* ================================================================== state
VARIABLES
  rows,       \* the items table as the poller's connection sees it
  committed,  \* how many leading rows are committed (durable, seen by readers)
  now,        \* the clock
  pc,         \* where run_poll is in its pass over one URL
  xml,        \* run_poll's xml: the document fetched
  items,      \* run_poll's items: the records parse_rss returned
  ret,        \* run_poll's added: the count save_items returned
  exp,        \* the exporter process: its arguments and the lines it wrote
  text,       \* the text given to the cleaners
  cleaned,    \* clean_summary(text), once computed
  snap,       \* clean_summary_for_snapshot(text), once computed
  phase,      \* where run_poll is: idle, top, urls, refresh, sleepcheck, sleeping, stopped
  u,          \* the index in urls of the URL of the for loop
  total_added,   \* run_poll's total_added
  STOP,       \* the global stop flag
  slept,      \* run_poll's slept
  once,       \* run_poll's once
  interval,   \* run_poll's interval, in seconds
  snapshot,   \* the rows whose lines the snapshot file holds, in its order
  cycles,     \* how many passes over the URLs have been started
  committed0  \* how many rows were committed when the pass started

vars == <<rows, committed, now, pc, xml, items, ret, exp, text, cleaned, snap,
          phase, u, total_added, STOP, slept, once, interval, snapshot,
          cycles, committed0>>

storeVars == <<rows, committed, now>>
pollVars == <<pc, xml, items, ret>>
cleanVars == <<text, cleaned, snap>>
loopVars == <<phase, u, total_added, STOP, slept, once, interval, snapshot,
              cycles, committed0>>

\* run_poll inside its first pass, at its first URL
InPass ==
  /\ phase = "urls"
  /\ u = 1
  /\ total_added = 0
  /\ STOP = FALSE
  /\ slept = 0
  /\ once = FALSE
  /\ interval = 0
  /\ snapshot = <<>>
  /\ cycles = 1
  /\ committed0 = 0

NoExport == [running |-> FALSE, since |-> None, limit |-> NoLimit, out |-> <<>>]

Init ==
  /\ rows = <<>>
  /\ committed = 0
  /\ now = 0
  /\ pc = "fetch"
  /\ xml = None
  /\ items = <<>>
  /\ ret = 0
  /\ exp = NoExport
  /\ text = None
  /\ cleaned = Unset
  /\ snap = Unset
  /\ InPass

\* ----------------------------------------------------------------- poller
\* bytes that are not an XML document: ET.fromstring raises ParseError
Malformed == [malformed |-> TRUE]

\* xml = fetch_feed(url)
FetchFeed ==
  /\ pc = "fetch"
  /\ pc' = "parse"
  /\ xml' \in Feeds
  /\ UNCHANGED <<storeVars, items, ret, exp, cleanVars>>

\* items = parse_rss(xml)
Parse ==
  /\ pc = "parse"
  /\ xml # Malformed
  /\ items' = parse_rss(xml)
  /\ pc' = "save"
  /\ UNCHANGED <<storeVars, xml, ret, exp, cleanVars>>

\* added = db.save_items(items): the loop, the commit, the count
SaveItems ==
  /\ pc = "save"
  /\ \E ts \in Readings(now, Len(items)) :
       LET r == InsertAll(rows, 0, items, ts) IN
       /\ Len(r.table) <= MaxRows
       /\ rows' = r.table
       /\ committed' = Len(r.table)
       /\ ret' = r.inserted
       /\ now' = IF items = <<>> THEN now ELSE ts[Len(ts)]
  /\ pc' = "tally"
  /\ UNCHANGED <<xml, items, exp, cleanVars>>

\* save_items leaves through an exception other than IntegrityError at its
\* k-th INSERT: the rows inserted before stay in the open transaction, unless
\* the engine rolled the transaction back with the error.  run_poll catches
\* the exception and goes on to the next URL; xml and items are dead by then.
SaveItemsRaises ==
  /\ pc = "save"
  /\ \E k \in 1..Len(items) : \E ts \in Readings(now, k) : \E rolledBack \in BOOLEAN :
       LET r == InsertAll(rows, 0, SubSeq(items, 1, k - 1), SubSeq(ts, 1, k - 1)) IN
       /\ Len(r.table) <= MaxRows
       /\ rows' = IF rolledBack THEN SubSeq(rows, 1, committed) ELSE r.table
       /\ now' = ts[k]
  /\ pc' = "fetch"
  /\ xml' = None
  /\ items' = <<>>
  /\ UNCHANGED <<committed, ret, exp, cleanVars>>

\* total_added += added, the log line, and on to the next URL; xml, items and
\* added are dead by then
Tally ==
  /\ pc = "tally"
  /\ pc' = "fetch"
  /\ xml' = None
  /\ items' = <<>>
  /\ ret' = 0
  /\ UNCHANGED <<storeVars, exp, cleanVars>>

Poll == FetchFeed \/ Parse \/ SaveItems \/ SaveItemsRaises \/ Tally

\* the passes of run_poll over one URL after the other, as long as none of
\* fetch_feed and parse_rss raises
Next ==
  \/ FetchFeed /\ UNCHANGED loopVars
  \/ Parse /\ UNCHANGED loopVars
  \/ SaveItems /\ UNCHANGED loopVars
  \/ SaveItemsRaises /\ UNCHANGED loopVars
  \/ Tally /\ UNCHANGED loopVars

Spec == Init /\ [][Next]_vars

\* --------------------------------------------------------------- exporter
Sinces == {None} \cup {FetchedAt(t) : t \in 0..MaxClock} \cup {<<"9", "9", "Z">>}
Limits == {NoLimit} \cup {Limit(k) : k \in -1..MaxLimit}

\* export_jsonl.export(db, out, since, limit), run by its own process on its
\* own connection: it reads the committed rows
Export ==
  /\ ~exp.running
  /\ \E since \in Sinces : \E limit \in Limits :
       LET table == SubSeq(rows, 1, committed) IN
       \E o \in Orderings(table, Selected(table, since)) :
         LET w == ApplyLimit(o, limit) IN
         exp' = [running |-> TRUE, since |-> since, limit |-> limit,
                 out |-> [i \in 1..Len(w) |->
                            Record(table[w[i]], clean_summary(table[w[i]].summary))]]
  /\ UNCHANGED <<storeVars, pollVars, cleanVars>>

\* the exporter process ends
ExportExit ==
  /\ exp.running
  /\ exp' = NoExport
  /\ UNCHANGED <<storeVars, pollVars, cleanVars>>

\* The exporter holds its read lock on the database from its query to the
\* end of its loop: the poller waits for it.  The committed rows change only
\* in the step of save_items, so every content of the store that a reader can
\* see is seen by an export started between two passes.
NextExport ==
  \/ ~exp.running /\ Poll /\ UNCHANGED loopVars
  \/ pc = "fetch" /\ Export /\ UNCHANGED loopVars
  \/ ExportExit /\ UNCHANGED loopVars

SpecExport == Init /\ [][NextExport]_vars

\* -------------------------------------------------------- run_poll's loop
\* export_db_to_json: the committed rows in the order their lines are written,
\* ascending in fetched_at
Snapshots(table) ==
  {[i \in 1..Len(table) |-> table[o[i]]] : o \in Orderings(table, 1..Len(table))}

\* the lines of the snapshot file written for these rows: the summary cleaned
SnapshotLines(written) ==
  [i \in 1..Len(written) |->
     Record(written[i], clean_summary_for_snapshot(written[i].summary))]

\* the file after export_db_to_json raised: as it was when the error came
\* before open(out_path, "w"), else the rows written until the error
FailedSnapshots(old, table) ==
  {old} \cup UNION {{SubSeq(w, 1, n) : n \in 0..Len(w)} : w \in Snapshots(table)}

\* the store that run_poll finds at start-up: empty, or with a row that an
\* earlier run stored
StoredBefore ==
  {<<>>,
   InsertAll(<<>>, 0,
             parse_rss(Feed(<<Item(<<Leaf("guid", Ch("A")), Leaf("title", Ch("T"))>>)>>)),
             <<0>>).table}

InitPoll ==
  /\ rows \in StoredBefore
  /\ committed = Len(rows)
  /\ now = 0
  /\ pc = "fetch"
  /\ xml = None
  /\ items = <<>>
  /\ ret = 0
  /\ exp = NoExport
  /\ text = None
  /\ cleaned = Unset
  /\ snap = Unset
  /\ phase = "idle"
  /\ u = 1
  /\ total_added = 0
  /\ STOP = FALSE
  /\ slept = 0
  /\ once \in BOOLEAN
  /\ interval \in 0..MaxInterval
  /\ snapshot = <<>>
  /\ cycles = 0
  /\ committed0 = 0

\* handle_signal, between any two steps of run_poll
Signal ==
  /\ phase # "stopped"
  /\ ~STOP
  /\ STOP' = TRUE
  /\ UNCHANGED <<storeVars, pollVars, exp, cleanVars, phase, u, total_added,
                 slept, once, interval, snapshot, cycles, committed0>>

\* the initial snapshot is written
InitialSnapshot ==
  /\ phase = "idle"
  /\ snapshot' \in Snapshots(SubSeq(rows, 1, committed))
  /\ phase' = "top"
  /\ UNCHANGED <<storeVars, pollVars, exp, cleanVars, u, total_added, STOP,
                 slept, once, interval, cycles, committed0>>

\* export_db_to_json raises at start-up: logged
InitialSnapshotRaises ==
  /\ phase = "idle"
  /\ snapshot' \in FailedSnapshots(snapshot, SubSeq(rows, 1, committed))
  /\ phase' = "top"
  /\ UNCHANGED <<storeVars, pollVars, exp, cleanVars, u, total_added, STOP,
                 slept, once, interval, cycles, committed0>>

\* "if STOP: break" at the top of the loop
StopRequested ==
  /\ phase = "top"
  /\ STOP
  /\ phase' = "stopped"
  /\ UNCHANGED <<storeVars, pollVars, exp, cleanVars, u, total_added, STOP,
                 slept, once, interval, snapshot, cycles, committed0>>

\* stop was requested, and a pass starts all the same
StartPassWhateverStop ==
  /\ phase = "top"
  /\ cycles < MaxCycles
  /\ phase' = "urls"
  /\ u' = 1
  /\ total_added' = 0
  /\ cycles' = cycles + 1
  /\ committed0' = committed
  /\ UNCHANGED <<storeVars, pollVars, exp, cleanVars, STOP, slept, once,
                 interval, snapshot>>

\* STOP is not set: total_added = 0 and the for loop starts
StartPass ==
  /\ phase = "top"
  /\ ~STOP
  /\ cycles < MaxCycles
  /\ phase' = "urls"
  /\ u' = 1
  /\ total_added' = 0
  /\ cycles' = cycles + 1
  /\ committed0' = committed
  /\ UNCHANGED <<storeVars, pollVars, exp, cleanVars, STOP, slept, once,
                 interval, snapshot>>

\* fetch_feed returns bytes that are not XML
FetchMalformed ==
  /\ pc = "fetch"
  /\ pc' = "parse"
  /\ xml' = Malformed
  /\ UNCHANGED <<storeVars, items, ret, exp, cleanVars>>

\* fetch_feed raises (network, timeout, HTTP status): caught by run_poll
FetchFeedRaises ==
  /\ pc = "fetch"
  /\ UNCHANGED <<storeVars, pollVars, exp, cleanVars>>

\* parse_rss raises ParseError: caught by run_poll
ParseRaises ==
  /\ pc = "parse"
  /\ xml = Malformed
  /\ pc' = "fetch"
  /\ xml' = None
  /\ UNCHANGED <<storeVars, items, ret, exp, cleanVars>>

\* the body of the for loop goes on with the same URL
SameUrl ==
  /\ phase = "urls"
  /\ UNCHANGED loopVars

\* the for loop takes the next URL, or ends after the last one
NextUrl(total) ==
  /\ phase = "urls"
  /\ total_added' = total
  /\ u' = u + 1
  /\ phase' = IF u = MaxUrls THEN "refresh" ELSE "urls"
  /\ UNCHANGED <<STOP, slept, once, interval, snapshot, cycles, committed0>>

\* the exception leaves run_poll
Uncaught ==
  /\ phase = "urls"
  /\ phase' = "stopped"
  /\ UNCHANGED <<u, total_added, STOP, slept, once, interval, snapshot, cycles,
                 committed0>>

\* "except Exception": logged, and the for loop goes on
Caught == NextUrl(total_added)

\* "if once: break", else slept = 0 and the sleep loop
AfterPass ==
  /\ phase' = IF once THEN "stopped" ELSE "sleepcheck"
  /\ slept' = IF once THEN slept ELSE 0
  /\ UNCHANGED <<storeVars, pollVars, exp, cleanVars, u, total_added, STOP,
                 once, interval, cycles, committed0>>

\* total_added > 0: the snapshot is written again
Refresh ==
  /\ phase = "refresh"
  /\ total_added > 0
  /\ snapshot' \in Snapshots(SubSeq(rows, 1, committed))
  /\ AfterPass

\* total_added > 0 and export_db_to_json raises, with no "except" around it
RefreshRaisesUncaught ==
  /\ phase = "refresh"
  /\ total_added > 0
  /\ snapshot' \in FailedSnapshots(snapshot, SubSeq(rows, 1, committed))
  /\ phase' = "stopped"
  /\ UNCHANGED <<storeVars, pollVars, exp, cleanVars, u, total_added, STOP,
                 slept, once, interval, cycles, committed0>>

\* total_added > 0 and export_db_to_json raises: logged
RefreshRaises ==
  /\ phase = "refresh"
  /\ total_added > 0
  /\ snapshot' \in FailedSnapshots(snapshot, SubSeq(rows, 1, committed))
  /\ AfterPass

\* total_added = 0: the snapshot is not written
RefreshSkipped ==
  /\ phase = "refresh"
  /\ ~(total_added > 0)
  /\ snapshot' = snapshot
  /\ AfterPass

\* a sleep loop that waits one second at most
SleepCheckOneSecond ==
  /\ phase = "sleepcheck"
  /\ phase' = IF slept < Min(1, interval) /\ ~STOP THEN "sleeping" ELSE "top"
  /\ UNCHANGED <<storeVars, pollVars, exp, cleanVars, u, total_added, STOP,
                 slept, once, interval, snapshot, cycles, committed0>>

\* "while slept < interval: if STOP: break"
SleepCheck ==
  /\ phase = "sleepcheck"
  /\ phase' = IF slept < interval /\ ~STOP THEN "sleeping" ELSE "top"
  /\ UNCHANGED <<storeVars, pollVars, exp, cleanVars, u, total_added, STOP,
                 slept, once, interval, snapshot, cycles, committed0>>

\* time.sleep(to_sleep); slept += to_sleep
Sleep ==
  /\ phase = "sleeping"
  /\ slept' = slept + Min(1, interval - slept)
  /\ phase' = "sleepcheck"
  /\ UNCHANGED <<storeVars, pollVars, exp, cleanVars, u, total_added, STOP,
                 once, interval, snapshot, cycles, committed0>>

\* one step of run_poll.  A feed is fetched only when its entries fit the
\* table of the model.
RunPoll ==
  \/ InitialSnapshot
  \/ InitialSnapshotRaises
  \/ StopRequested
  \/ StartPass
  \/ FetchFeed /\ Len(rows) + Len(parse_rss(xml')) <= MaxRows /\ SameUrl
  \/ FetchMalformed /\ SameUrl
  \/ FetchFeedRaises /\ Caught
  \/ Parse /\ SameUrl
  \/ ParseRaises /\ Caught
  \/ SaveItems /\ SameUrl
  \/ SaveItemsRaises /\ Caught
  \/ Tally /\ NextUrl(total_added + ret)
  \/ Refresh
  \/ RefreshRaises
  \/ RefreshSkipped
  \/ SleepCheck
  \/ Sleep

NextPoll == RunPoll \/ Signal

SpecPoll == InitPoll /\ [][NextPoll]_vars

\* where run_poll is: every step of RunPoll changes it, and Signal does not
position == <<phase, u, pc>>

\* run_poll has a step to take: it has not returned, and it is not about to
\* start a pass beyond those the model follows
Running == phase # "stopped" /\ (phase = "top" => STOP \/ cycles < MaxCycles)

\* run_poll moves on from where it is
Step ==
  /\ Running
  /\ phase' \in {"idle", "top", "urls", "refresh", "sleepcheck", "sleeping", "stopped"}
  /\ u' \in 1..(MaxUrls + 1)
  /\ pc' \in {"fetch", "parse", "save", "tally"}

\* run_poll keeps running: every call it makes returns or raises, so it does
\* not stay for ever where it is
SpecPollFair == SpecPoll /\ WF_position(Step)

\* ------------------------------------------------------------ parser alone
InitParse ==
  /\ rows = <<>>
  /\ committed = 0
  /\ now = 0
  /\ pc = "parse"
  /\ xml \in Docs
  /\ items = <<>>
  /\ ret = 0
  /\ exp = NoExport
  /\ text = None
  /\ cleaned = Unset
  /\ snap = Unset
  /\ InPass

NextParse == Parse /\ UNCHANGED loopVars

SpecParse == InitParse /\ [][NextParse]_vars

\* ---------------------------------------------------------- cleaners alone
InitClean ==
  /\ rows = <<>>
  /\ committed = 0
  /\ now = 0
  /\ pc = "fetch"
  /\ xml = None
  /\ items = <<>>
  /\ ret = 0
  /\ exp = NoExport
  /\ text \in CleanInputs
  /\ cleaned = Unset
  /\ snap = Unset
  /\ InPass

CleanSummary ==
  /\ cleaned = Unset
  /\ cleaned' = clean_summary(text)
  /\ UNCHANGED <<storeVars, pollVars, exp, text, snap>>

CleanSnapshot ==
  /\ snap = Unset
  /\ snap' = clean_summary_for_snapshot(text)
  /\ UNCHANGED <<storeVars, pollVars, exp, text, cleaned>>

NextClean ==
  \/ CleanSummary /\ UNCHANGED loopVars
  \/ CleanSnapshot /\ UNCHANGED loopVars

SpecClean == InitClean /\ [][NextClean]_vars

\* ================================================================= claims
\* every element of the document, the root first, in document order
RECURSIVE DocOrder(_)
RECURSIVE DocOrderOfAll(_)
DocOrder(e) == <<e>> \o DocOrderOfAll(e.children)
DocOrderOfAll(es) ==
  IF es = <<>> THEN <<>> ELSE DocOrder(Head(es)) \o DocOrderOfAll(Tail(es))

\* the elements of the document named item or entry, whatever the namespace
AllEntries(d) ==
  SelectSeq(DocOrder(d),
            LAMBDA e : e.tag[Len(e.tag)] \in {"item", "entry"}
                       /\ (Len(e.tag) = 1 \/ e.tag[Len(e.tag) - 1] = "}"))

\* the children of the element with that local name
ChildrenNamed(e, name) ==
  SelectSeq(e.children,
            LAMBDA c : c.tag[Len(c.tag)] = name
                       /\ (Len(c.tag) = 1 \/ c.tag[Len(c.tag) - 1] = "}"))

\* the element's text is missing, empty or whitespace
Blank(c) == c.text = None \/ \A i \in 1..Len(c.text) : IsSpace(c.text[i])

GuidOf(it) == Get(it, "guid")
NonNullGuids(its) == \A i \in 1..Len(its) : GuidOf(its[i]) # None
RowsWithGuid(table, g) == {j \in 1..Len(table) : table[j].guid = g}
OneRowPerGuid(table, its) ==
  \A i \in 1..Len(its) : Cardinality(RowsWithGuid(table, GuidOf(its[i]))) = 1

SaveReturns == pc = "save" /\ pc' = "tally"

\* C1: a save_items call that returns on a batch whose entries all carry a
\* guid leaves exactly one row for each guid of the batch; and a call on a
\* batch of which every guid has its one row already, which is what a first
\* call on that batch leaves, returns 0 and writes no row.
C1_IdempotentReingestion ==
  [][(SaveReturns /\ items # <<>> /\ NonNullGuids(items))
       => /\ OneRowPerGuid(rows', items)
          /\ (OneRowPerGuid(rows, items) => ret' = 0 /\ rows' = rows)]_vars

\* a call on a stored batch of two guids has returned 0
C1_Witness ==
  /\ pc = "tally" /\ ret = 0 /\ Len(items) = 2 /\ NonNullGuids(items)
  /\ GuidOf(items[1]) # GuidOf(items[2])
  /\ OneRowPerGuid(rows, items) /\ committed = Len(rows)

\* C2, as stated: no two stored rows have the same guid value, the rows of
\* entries with neither guid nor link included.
C2_NoTwoRowsShareGuid ==
  \A i, j \in 1..Len(rows) : i # j => rows[i].guid # rows[j].guid

\* C2, amended: no two stored rows have the same guid unless that guid is
\* null (rows of entries with neither guid nor link are all stored).
C2_NoTwoRowsShareNonNullGuid ==
  \A i, j \in 1..Len(rows) : (i # j /\ rows[i].guid = rows[j].guid) => rows[i].guid = None

\* an entry whose guid was stored already has been skipped
C2_Witness ==
  /\ pc = "tally" /\ ret < Len(items) /\ Len(rows) = 2
  /\ \E i \in 1..Len(items) : GuidOf(items[i]) # None

\* C3: a committed row is never removed and never changes, whatever the
\* poller and the exporter do.
C3_AppendOnly ==
  [][committed' >= committed /\ \A i \in 1..committed : rows'[i] = rows[i]]_vars

\* an entry with a stored guid and another title has been through save_items
C3_Witness ==
  /\ pc = "tally"
  /\ \E i \in 1..Len(items) : \E j \in 1..committed :
       /\ rows[j].guid = GuidOf(items[i]) /\ rows[j].guid # None
       /\ rows[j].title # Get(items[i], "title")
       /\ rows[j].link # Get(items[i], "link")

Written(it) ==
  \E j \in (Len(rows) + 1)..Len(rows') :
    /\ rows'[j].guid = Get(it, "guid") /\ rows'[j].title = Get(it, "title")
    /\ rows'[j].link = Get(it, "link") /\ rows'[j].published = Get(it, "published")
    /\ rows'[j].summary = Get(it, "summary")

\* the guid of the k-th record was taken when save_items came to it: by a row
\* of the table, or by an earlier entry of the batch
Taken(k) ==
  \/ RowsWithGuid(rows, GuidOf(items[k])) # {}
  \/ \E m \in 1..(k - 1) : GuidOf(items[m]) = GuidOf(items[k])

\* C6: an entry without a guid child that has text, and with a link, gives a
\* record with guid = link, and save_items writes that record as a row with
\* guid = link (unless the guid is taken: then the entry is a duplicate).
C6_GuidFallback ==
  [][SaveReturns =>
       /\ Len(items) = Len(AllEntries(xml))
       /\ \A k \in 1..Len(items) :
            LET e == AllEntries(xml)[k]
                g == ChildrenNamed(e, "guid")
            IN ((\A i \in 1..Len(g) : Blank(g[i])) /\ Truthy(Get(items[k], "link")))
                 => /\ items[k]["guid"] = items[k]["link"]
                    /\ ~Taken(k) => Written(items[k])]_vars

\* an entry with a blank guid and one with no guid at all have been stored
C6_Witness ==
  /\ pc = "tally" /\ ret = 2
  /\ \E k \in 1..2 : Len(ChildrenNamed(AllEntries(xml)[k], "guid")) = 1
  /\ \E k \in 1..2 : Len(ChildrenNamed(AllEntries(xml)[k], "guid")) = 0
  /\ \A k \in 1..2 : \E j \in 1..committed :
       rows[j].guid = Get(items[k], "link") /\ rows[j].link = rows[j].guid

\* the item/entry elements parse_rss makes records of: those below the root
Processed(d) == SelectSeq(AllEntries(d), LAMBDA e : e # d)

\* C5: an entry whose title is empty (no title child, or none with text) gets
\* its summary as title if it has one, and the placeholder title if not.
C5_TitleFallback ==
  pc = "save" =>
    /\ Len(items) = Len(Processed(xml))
    /\ \A k \in 1..Len(items) :
         LET t == ChildrenNamed(Processed(xml)[k], "title")
             summary == Get(items[k], "summary")
         IN (\A i \in 1..Len(t) : Blank(t[i]))
              => items[k]["title"] = (IF Truthy(summary) THEN summary ELSE NoTitle)

Recognized ==
  {"guid", "link", "title", "description", "summary", "content",
   "pubDate", "published", "updated"}

\* C7: parse_rss returns one record for each element named item or entry,
\* in document order, the record of an element with no recognized child
\* having the placeholder title and nothing else.
C7_NoEntryDropped ==
  pc = "save" =>
    /\ Len(items) = Len(AllEntries(xml))
    /\ \A k \in 1..Len(items) :
         LET e == AllEntries(xml)[k] IN
         /\ items[k] = ParseItem(e)
         /\ (\A n \in Recognized : ChildrenNamed(e, n) = <<>>)
              => /\ items[k]["title"] = NoTitle
                 /\ \A f \in Keys \ {"title"} : Get(items[k], f) = None

\* C8: cleaning a cleaned text changes nothing, for both cleaners.
C8_CleanerIdempotent ==
  /\ cleaned # Unset => clean_summary(cleaned) = cleaned
  /\ snap # Unset => clean_summary_for_snapshot(snap) = snap

Trimmed(s) == s # <<>> /\ ~IsSpace(s[1]) /\ ~IsSpace(s[Len(s)])

\* C9: a cleaner returns null or a non-empty text without whitespace at its
\* ends, and null for null and for the empty text.
C9_CleanerNeverEmpty ==
  /\ cleaned # Unset => /\ cleaned = None \/ Trimmed(cleaned)
                        /\ text \in {None, <<>>} => cleaned = None
  /\ snap # Unset => /\ snap = None \/ Trimmed(snap)
                     /\ text \in {None, <<>>} => snap = None

\* the line written for the row: the row, but for its summary
LineOf(line, row) ==
  /\ line.guid = row.guid /\ line.title = row.title /\ line.link = row.link
  /\ line.published = row.published /\ line.fetched_at = row.fetched_at

\* C10: given a limit k >= 0, export writes, in ascending fetched_at, the
\* min(k, n) earliest of the n rows with fetched_at >= since, and no row when
\* since is above every fetched_at.
C10_ExportSelection ==
  (exp.running /\ exp.limit.given /\ exp.limit.k >= 0) =>
    LET table == SubSeq(rows, 1, committed)
        sel == {i \in 1..Len(table) :
                  exp.since # None => TextLeq(exp.since, table[i].fetched_at)}
        out == exp.out
    IN /\ Len(out) = Min(exp.limit.k, Cardinality(sel))
       /\ \A i \in 1..(Len(out) - 1) : TextLeq(out[i].fetched_at, out[i + 1].fetched_at)
       /\ \E m \in [1..Len(out) -> sel] :
            /\ \A i, j \in 1..Len(out) : i # j => m[i] # m[j]
            /\ \A i \in 1..Len(out) : LineOf(out[i], table[m[i]])
            /\ \A j \in sel \ {m[i] : i \in 1..Len(out)} : \A i \in 1..Len(out) :
                 TextLeq(out[i].fetched_at, table[j].fetched_at)
       /\ (exp.since # None /\ sel = {}) => out = <<>>

\* ---------------------------------------------------------------- run_poll
\* a step of the for loop that ends the body for one URL through an exception
UrlFails == phase = "urls" /\ u' # u /\ pc # "tally"

\* a step of the for loop that ends the body for one URL normally
UrlDone == phase = "urls" /\ u' # u /\ pc = "tally"

\* C11: in a pass the for loop takes the URLs one by one in their order: the
\* pass starts at the first URL, each URL is fetched once, the body for a URL
\* ends, normally or through an exception, by moving to the next URL, and the
\* pass ends only after the last URL.  An exception in fetch_feed, parse_rss
\* or save_items leaves total_added as it was and never stops run_poll.
C11_FailureIsolation ==
  [][/\ (phase = "top" /\ phase' = "urls") => (u' = 1 /\ pc' = "fetch")
     /\ phase = "urls" =>
          /\ u \in 1..MaxUrls
          /\ u' = u \/ (u' = u + 1 /\ pc' = "fetch")
          /\ (pc = "fetch" /\ u' = u) => pc' \in {"fetch", "parse"}
          /\ (pc # "fetch" /\ u' = u) => pc' # "fetch"
          /\ phase' = IF u' = MaxUrls + 1 THEN "refresh" ELSE "urls"
     /\ UrlFails => total_added' = total_added
     /\ UrlDone => total_added' = total_added + ret
     /\ phase # "urls" => u' = u \/ (phase = "top" /\ phase' = "urls")]_vars

\* the first URL of the pass failed in save_items, which left a row behind,
\* and the second URL has been fetched, parsed and stored
C11_Witness ==
  /\ phase = "urls" /\ u = 2 /\ pc = "tally" /\ cycles = 1
  /\ ret > 0
  /\ total_added = 0
  /\ committed > committed0 + ret

\* C12: at the end of a pass, unless the export raises, the snapshot is
\* written again from the whole store when the pass added a row to the store,
\* and is left as it was when the pass added none.
C12_ConditionalRefresh ==
  [][(phase = "refresh" /\ phase' # "refresh" /\ ~RefreshRaises) =>
       /\ committed > committed0 => snapshot' \in Snapshots(SubSeq(rows, 1, committed))
       /\ committed = committed0 => snapshot' = snapshot]_vars

\* the state of the poller's state machine that run_poll is in: the check of
\* STOP at the top of the loop belongs to Idle before the first pass and to
\* Sleeping after a pass
PollerState ==
  CASE phase = "idle" -> "Idle"
    [] phase = "top" -> IF cycles = 0 THEN "Idle" ELSE "Sleeping"
    [] phase \in {"urls", "refresh"} -> "Fetching"
    [] phase \in {"sleepcheck", "sleeping"} -> "Sleeping"
    [] phase = "stopped" -> "Stopped"

\* what holds of every move from state a to state b: Sleeping is entered after
\* the last URL, Fetching is entered again after the whole interval, and in
\* one-shot mode there is no Sleeping and Stopped follows Fetching
MoveRules(a, b) ==
  /\ (a = "Fetching" /\ b = "Sleeping") => (phase = "refresh" /\ u = MaxUrls + 1 /\ ~once)
  /\ (a = "Sleeping" /\ b = "Fetching") => slept >= interval
  /\ (a = "Fetching" /\ b = "Stopped") => (phase = "refresh" /\ u = MaxUrls + 1 /\ once)
  /\ once => (b # "Sleeping" /\ slept' = 0)

\* C13: run_poll moves only Idle -> Fetching -> Sleeping -> Fetching ... ->
\* Stopped: Idle is left to Fetching only, Sleeping is entered after a full
\* pass, Fetching is entered again after the whole interval, and in one-shot
\* mode Stopped is reached from the first Fetching after exactly one pass and
\* no sleep.
C13_StateMachine ==
  [][LET a == PollerState
         b == PollerState'
     IN /\ a # b => <<a, b>> \in {<<"Idle", "Fetching">>, <<"Fetching", "Sleeping">>,
                                 <<"Sleeping", "Fetching">>, <<"Fetching", "Stopped">>,
                                 <<"Sleeping", "Stopped">>}
        /\ MoveRules(a, b)
        /\ (once /\ b = "Stopped") => cycles' = 1]_vars

\* C13, amended: the same, and Idle is also left to Stopped, with no pass run,
\* when the stop flag is set before the first check at the top of the loop.
C13_StateMachineWithEarlyStop ==
  [][LET a == PollerState
         b == PollerState'
     IN /\ a # b => \/ <<a, b>> \in {<<"Idle", "Fetching">>, <<"Fetching", "Sleeping">>,
                                    <<"Sleeping", "Fetching">>, <<"Fetching", "Stopped">>,
                                    <<"Sleeping", "Stopped">>}
                    \/ (a = "Idle" /\ b = "Stopped" /\ STOP /\ cycles = 0)
        /\ MoveRules(a, b)
        /\ (once /\ b = "Stopped") => (cycles' = 1 \/ (cycles' = 0 /\ STOP))
        /\ (a = "Idle" /\ ~STOP) => b \in {"Idle", "Fetching"}]_vars

\* the second pass has started after a sleep of the whole, longest interval
C13_Witness ==
  /\ phase = "urls" /\ cycles = 2
  /\ ~once
  /\ interval = MaxInterval /\ slept = interval

\* where run_poll may be after a step taken from phase p with the stop flag
\* set: it finishes the pass or the sleep increment it is in, starts no other
\* one, and goes to the check at the top of the loop
AfterStop(p) ==
  CASE p = "idle" -> {"idle", "top"}
    [] p = "top" -> {"top", "stopped"}
    [] p = "urls" -> {"urls", "refresh"}
    [] p = "refresh" -> {"refresh", "sleepcheck", "stopped"}
    [] p = "sleepcheck" -> {"sleepcheck", "top"}
    [] p = "sleeping" -> {"sleeping", "sleepcheck"}
    [] p = "stopped" -> {"stopped"}

\* C14: the stop flag stays set, and once it is set no pass is started and
\* run_poll reaches Stopped; setting it changes nothing else, so the fetch or
\* insert in flight goes on and the pass is finished; a sleep increment in
\* flight is the last one, and after a pass no increment is slept at all.
C14_StopHonoured ==
  /\ [][/\ STOP => (STOP' /\ cycles' = cycles /\ phase' \in AfterStop(phase))
        /\ STOP' # STOP =>
             UNCHANGED <<storeVars, pollVars, exp, phase, u, total_added, slept,
                         snapshot, cycles, committed0>>
        /\ (STOP /\ phase # "sleeping") => slept' <= slept]_vars
  /\ (STOP ~> phase = "stopped")

\* the flag was set during Sleeping and run_poll has stopped before the
\* interval was over
C14_Witness ==
  /\ phase = "stopped" /\ STOP
  /\ ~once /\ cycles = 1
  /\ slept = 1 /\ interval = MaxInterval

\* export_db_to_json was called and raised: the file is not what the call
\* writes when it returns
ExportFailed ==
  /\ phase \in {"idle", "refresh"} /\ phase' # phase
  /\ phase = "refresh" => total_added > 0
  /\ snapshot' \notin Snapshots(SubSeq(rows, 1, committed))

\* C15: when export_db_to_json raises, at start-up or after a pass that
\* counted an insert, the store is as it was and run_poll goes on: to the top
\* of the loop from start-up, to the sleep loop after a pass, to Stopped after
\* the pass in one-shot mode only.
C15_ExportFailureContained ==
  [][ExportFailed =>
       /\ rows' = rows /\ committed' = committed
       /\ phase = "idle" => phase' = "top"
       /\ phase = "refresh" => phase' = IF once THEN "stopped" ELSE "sleepcheck"
       /\ (phase = "refresh" /\ ~once) => slept' = 0]_vars

\* the snapshot written after the first pass stopped short of the rows of the
\* store, and the second pass has fetched and parsed a feed
C15_Witness ==
  /\ phase = "urls" /\ cycles = 2 /\ pc = "save"
  /\ snapshot # <<>>
  /\ Len(snapshot) < committed0

\* ---------------------------------------------------------------- parse_rss
\* the children of the element whose local name is one of the names
ChildrenAmong(e, names) ==
  SelectSeq(e.children,
            LAMBDA c : c.tag[Len(c.tag)] \in names
                       /\ (Len(c.tag) = 1 \/ c.tag[Len(c.tag) - 1] = "}"))

\* the child names that feed a field of the record
NamesOf(field) ==
  CASE field = "guid" -> {"guid"}
    [] field = "link" -> {"link"}
    [] field = "title" -> {"title"}
    [] field = "summary" -> {"description", "summary", "content"}
    [] field = "published" -> {"pubDate", "published", "updated"}

\* what a child gives to its field: its href if it is a link with one, else
\* its text without the whitespace around it, else nothing
ValueOf(c) ==
  IF c.tag[Len(c.tag)] = "link" /\ c.href # None /\ c.href # <<>> THEN c.href
  ELSE IF Blank(c) THEN None
  ELSE Strip(c.text)

\* the record's field is what the first child for that field gave it
FirstWins(it, e, field) ==
  LET cs == ChildrenAmong(e, NamesOf(field))
  IN (cs # <<>> /\ ValueOf(cs[1]) # None) => Get(it, field) = ValueOf(cs[1])

\* C16: a field of the record that the first child for it has set is not
\* changed by a later child of the entry; with several title children the
\* title is that of the first.
C16_FirstOccurrenceWins ==
  pc = "save" =>
    /\ Len(items) = Len(Processed(xml))
    /\ \A k \in 1..Len(items) :
         \A f \in {"guid", "link", "title", "summary", "published"} :
           FirstWins(items[k], Processed(xml)[k], f)

\* the description, summary and content children of the element that have
\* text
SummaryCandidates(e) ==
  SelectSeq(ChildrenAmong(e, NamesOf("summary")), LAMBDA c : ~Blank(c))

\* C17: the summary of the record is the text of the first description,
\* summary or content child that has text, and null only when there is none.
C17_SummaryCandidate ==
  pc = "save" =>
    /\ Len(items) = Len(Processed(xml))
    /\ \A k \in 1..Len(items) :
         LET cands == SummaryCandidates(Processed(xml)[k])
         IN Get(items[k], "summary") =
              (IF cands = <<>> THEN None ELSE Strip(cands[1].text))

\* ------------------------------------------------------------------- store
\* C18: the fetched_at texts of the rows all have the same length and, in the
\* order the rows were inserted, never decrease as texts.
C18_FetchedAtOrdered ==
  \A i, j \in 1..Len(rows) :
    i < j => /\ Len(rows[i].fetched_at) = Len(rows[j].fetched_at)
             /\ TextLeq(rows[i].fetched_at, rows[j].fetched_at)

\* C19: a save_items call that leaves through an exception stores nothing,
\* then or later: the committed rows stay as they are at the failure, and the
\* rows that a returning call commits are the rows it inserted and counted.
C19_FailedBatchNeverStored ==
  [][/\ (pc = "save" /\ pc' = "fetch") => committed' = committed
     /\ SaveReturns => committed' - committed = ret']_vars

\* ----------------------------------------------------------------- cleaners
\* C20: clean_summary and clean_summary_for_snapshot return the same value
\* for the same input, null and the empty text included.
C20_CleanersAgree ==
  (cleaned # Unset /\ snap # Unset) => cleaned = snap

====
